---- MODULE Spec2Model ----
(***************************************************************************)
(* Model of veles' TrigramWidget (src/src/visualisation/trigram.cc): the   *)
(* brightness heuristic, the morph blend scalars driven by the timer, and  *)
(* the camera-manipulator switching protocol.                              *)
(***************************************************************************)
EXTENDS Integers, Sequences, FiniteSets, TLC

(***************************************************************************)
(* Program constants (trigram.cc:40-46).                                   *)
(***************************************************************************)
k_minimum_brightness == 25
k_maximum_brightness == 103
k_brightness_heuristic_min == 38
k_brightness_heuristic_max == 66

\* k_brightness_heuristic_threshold = 0.66 and k_brightness_heuristic_scaling
\* = 2.5 are doubles; they are kept as exact fractions Num/Den.
ThresholdNum == 66
ThresholdDen == 100
ScalingNum == 5
ScalingDen == 2

\* size < 100 guard of suggestBrightness
MinHeuristicSize == 100
\* counts(256, 0)
NumBuckets == 256

(***************************************************************************)
(* Bounds of the model.                                                    *)
(***************************************************************************)
\* size of the large buffers fed to the heuristic
BigSize == 5000
\* size of the mid-sized buffers fed to the heuristic
MidSize == 150

\* largest value of the frame-angle counter that is told apart
MaxAngle == 2
\* number of setShape and animated setMode calls in a run
MaxAnimatedCalls == 1
\* number of setMode calls with animate = false in a run
MaxSnapCalls == 1
\* largest number of ticks under a constant mode that is told apart
MaxHeldTicks == 102
\* number of camera poses that are told apart
NumPoses == 3

VARIABLES
  data,          \* the byte buffer behind getData()/getDataSize()
  suggestion,    \* value returned by the last suggestBrightness() call, or NoValue
  shape_,        \* EVisualisationShape
  mode_,         \* EVisualisationMode
  c_cyl,         \* float blend scalars, see "float arithmetic" below
  c_sph,
  c_pos,
  angle,         \* in steps of 0.5f
  is_playing_,
  animatedCalls, \* calls of setShape and setMode(_, true) so far
  snapCalls,     \* calls of setMode(_, false) so far
  heldTicks,     \* timer events since mode_ was last set
  manipulators_,          \* the manipulators, in creation order
  current_manipulator_,
  eventFilters,           \* objects installed as event filters of the widget
  xform,                  \* transform() of each manipulator
  pause_button_,          \* NullButton, or the button's icon and enabled flag
  toolbarChecked,         \* checked button of the manipulator toolbar
  lastCall,               \* what the last handler was and what it did
  brightness_,
  brightness_slider_,     \* NoValue for nullptr, or the slider's value
  use_brightness_heuristic_,
  use_heuristic_checkbox_, \* "nullptr", "checked" or "unchecked"
  c_brightness,           \* float, see "the intensity" below
  texture,                \* NoValue for nullptr, or the size it was created with
  databuf,                \* NoValue for nullptr, or the size allocated to it
  liveObjects,            \* GPU buffers and textures created and not deleted
  lastSlot,               \* what the last brightness or GL handler did
  drawn                   \* <<>>, or the count of the last glDrawArrays call

NoValue == -1

heuristicVars == <<data, suggestion>>
morphVars == <<shape_, mode_, c_cyl, c_sph, c_pos, angle>>
callVars == <<animatedCalls, snapCalls>>
manipulatorVars == <<manipulators_, current_manipulator_, eventFilters, xform,
                     pause_button_, toolbarChecked, lastCall>>
brightnessVars == <<brightness_, brightness_slider_, use_brightness_heuristic_,
                    use_heuristic_checkbox_>>
glVars == <<c_brightness, texture, databuf, liveObjects, lastSlot>>
vars == <<data, suggestion, shape_, mode_, c_cyl, c_sph, c_pos, angle,
          is_playing_, animatedCalls, snapCalls, heldTicks,
          manipulators_, current_manipulator_, eventFilters, xform,
          pause_button_, toolbarChecked, lastCall,
          brightness_, brightness_slider_, use_brightness_heuristic_,
          use_heuristic_checkbox_,
          c_brightness, texture, databuf, liveObjects, lastSlot, drawn>>

(***************************************************************************)
(* suggestBrightness                                                       *)
(***************************************************************************)
getDataSize(buf) == Len(buf)

\* std::vector<uint64_t> counts(256, 0); for (i < size) counts[data[i]] += 1;
\* bucket of byte value b is element b + 1.
Histogram(buf) ==
  [j \in 1..NumBuckets |-> Cardinality({i \in 1..Len(buf) : buf[i] = j - 1})]

\* std::sort(counts.begin(), counts.end())
SortCounts(counts) == SortSeq(counts, LAMBDA a, b : a < b)

\* sum < k_brightness_heuristic_threshold * size.  sum and size are ints below
\* 2^31; 0.66 * size in double arithmetic differs from the exact product by
\* less than 1/50, the smallest distance of 66*size/100 from an integer it
\* does not equal, and is exact when the product is an integer, so the
\* comparison agrees with the exact one.
BelowThresholdTenth(sum, size) == sum * ThresholdDen * 10 < ThresholdNum * size
BelowThreshold(sum, size) == sum * ThresholdDen < ThresholdNum * size

\* while (offset < 255 && sum < threshold * size)
\*   { sum += counts[255 - offset]; offset += 1; }
RECURSIVE Walk(_, _, _, _)
Walk(sorted, size, offset, sum) ==
  IF offset < NumBuckets - 1 /\ BelowThreshold(sum, size)
    THEN Walk(sorted, size, offset + 1, sum + sorted[NumBuckets - offset])
    ELSE offset

\* static_cast<int>(static_cast<double>(offset) / 2.5): truncation of a
\* non-negative quotient.
ScaleOffsetCeil(offset) == (offset * ScalingDen + ScalingNum - 1) \div ScalingNum
ScaleOffset(offset) == (offset * ScalingDen) \div ScalingNum

\* std::max
MaxSecond(a, b) == b
Max(a, b) == IF a > b THEN a ELSE b

\* (k_minimum_brightness + k_maximum_brightness) / 2
MidBrightnessOfHeuristic ==
  (k_brightness_heuristic_min + k_brightness_heuristic_max) \div 2
MidBrightness == (k_minimum_brightness + k_maximum_brightness) \div 2

suggestBrightness(buf) ==
  LET size == getDataSize(buf)
  IN IF size < MinHeuristicSize
       THEN MidBrightness
       ELSE LET sorted == SortCounts(Histogram(buf))
                offset == ScaleOffset(Walk(sorted, size, 0, 0))
            IN Max(k_brightness_heuristic_min,
                   k_brightness_heuristic_max - offset)

(***************************************************************************)
(* float arithmetic.  c_cyl, c_sph and c_pos are floats (they are passed   *)
(* to setUniformValue, which has no double overload) and every step adds   *)
(* or subtracts the double literal 0.01: the float is widened to double,   *)
(* the sum is rounded to double and the result is rounded back to float.   *)
(* A value is the pair <<hi, lo>> standing for (hi * 2^29 + lo) * 2^-59    *)
(* with 0 <= lo < 2^29; every float in [2^-7, 2) has lo = 0.  A pair with  *)
(* hi < 0 stands for a negative value.                                     *)
(***************************************************************************)
\* significand widths of float and double
FloatBits == 24
DoubleBits == 53
\* width of the low limb
LimbBits == 29
LimbBase == 2^LimbBits

\* the double nearest to 0.01 is 0x147AE147AE147B * 2^-59
StepHi == 10737418
StepLo == 128849019
Step == <<StepHi, StepLo>>

Zero == <<0, 0>>
One == <<2 * LimbBase, 0>>

IsNegative(x) == x[1] < 0
IsZero(x) == x[1] = 0 /\ x[2] = 0
Less(x, y) == x[1] < y[1] \/ (x[1] = y[1] /\ x[2] < y[2])

\* exact sum and difference
ExactAdd(x, y) ==
  LET lo == x[2] + y[2]
  IN IF lo >= LimbBase THEN <<x[1] + y[1] + 1, lo - LimbBase>>
                       ELSE <<x[1] + y[1], lo>>
ExactSub(x, y) ==
  LET lo == x[2] - y[2]
  IN IF lo < 0 THEN <<x[1] - y[1] - 1, lo + LimbBase>>
               ELSE <<x[1] - y[1], lo>>

RECURSIVE BitLen(_)
BitLen(n) == IF n = 0 THEN 0 ELSE 1 + BitLen(n \div 2)

\* x >= 0 with its lowest d bits rounded away, ties to even
RoundBits(x, d) ==
  IF d <= 0 THEN x
  ELSE IF d <= LimbBits
    THEN LET q == 2^d
             r == x[2] % q
             above == IF d = LimbBits THEN x[1] % 2 ELSE (x[2] \div q) % 2
             up == 2 * r > q \/ (2 * r = q /\ above = 1)
             lo == x[2] - r + (IF up THEN q ELSE 0)
         IN IF lo >= LimbBase THEN <<x[1] + 1, lo - LimbBase>> ELSE <<x[1], lo>>
    ELSE LET q == 2^(d - LimbBits)
             r == x[1] % q
             above == (x[1] \div q) % 2
             up == 2 * r > q \/ (2 * r = q /\ (x[2] > 0 \/ above = 1))
         IN <<x[1] - r + (IF up THEN q ELSE 0), 0>>

\* x >= 0 rounded to a significand of p bits, ties to even
RoundSignificand(x, p) ==
  LET len == IF x[1] > 0 THEN BitLen(x[1]) + LimbBits ELSE BitLen(x[2])
  IN RoundBits(x, len - p)

\* the double x converted to float; a negative value keeps its sign
ToFloat(x) == IF IsNegative(x) THEN x ELSE RoundSignificand(x, FloatBits)
\* the exact value x rounded to double
ToDouble(x) == IF IsNegative(x) THEN x ELSE RoundSignificand(x, DoubleBits)

\* c += 0.01 and c -= 0.01 on a float c
PlusStep(c) == ToFloat(ToDouble(ExactAdd(c, Step)))
MinusStep(c) == ToFloat(ToDouble(ExactSub(c, Step)))

\* if (c > 1) c = 1;  if (c < 0) c = 0;
NoClampHigh(c) == c
ClampHigh(c) == IF Less(One, c) THEN One ELSE c
ClampLow(c) == IF IsNegative(c) THEN Zero ELSE c

InUnitInterval(c) == ~IsNegative(c) /\ ~Less(One, c)

(***************************************************************************)
(* The intensity c_brightness: a float, kept as its significand and        *)
(* exponent, [m |-> m, e |-> e] for m * 2^e with 2^23 <= m < 2^24, or m = 0 *)
(* for 0.0f, or Infinity.                                                  *)
(***************************************************************************)
PositiveZero == [m |-> 0, e |-> 0]
\* one above the largest exponent of a float
MaxExponent == 128
Infinity == [m |-> 0, e |-> MaxExponent]

\* the significand m and remainder r of a quotient by d, shifted left until m
\* has FloatBits bits
RECURSIVE Normalise(_, _, _, _)
Normalise(m, r, e, d) ==
  IF m >= 2^(FloatBits - 1) THEN <<m, r, e>>
  ELSE Normalise(2 * m + (IF 2 * r >= d THEN 1 ELSE 0), (2 * r) % d, e - 1, d)

\* float(n) / float(d) for 0 <= n, d < 2^24, rounded to nearest, ties to even
FloatDiv(n, d) ==
  IF d = 0 THEN Infinity
  ELSE IF n = 0 THEN PositiveZero
  ELSE LET q == Normalise(n \div d, n % d, 0, d)
           up == 2 * q[2] > d \/ (2 * q[2] = d /\ q[1] % 2 = 1)
           m == IF up THEN q[1] + 1 ELSE q[1]
       IN IF m = 2^FloatBits THEN [m |-> 2^(FloatBits - 1), e |-> q[3] + 1]
          ELSE [m |-> m, e |-> q[3]]

\* static_cast<float>(value) * value * value, exact below 2^24
CubeOf(value) == value * value * value

\* c_brightness after setBrightness(value) with the data size
Intensity(value, size) == FloatDiv(CubeOf(value), size)

\* the constructor does not initialise c_brightness
Indeterminate == {PositiveZero, Intensity(MidBrightness, 1)}

(***************************************************************************)
(* Morph state: setShape, setMode, timerEvent                              *)
(***************************************************************************)
Shapes == {"CUBE", "CYLINDER", "SPHERE"}
Modes == {"TRIGRAM", "LAYERED_DIGRAM"}

\* c_cyl and c_sph after a timer event: step towards the shape, then clamp
ShapeBlend(c, towards) ==
  ClampLow(ClampHigh(IF towards THEN PlusStep(c) ELSE MinusStep(c)))

\* c_pos after a timer event
PosBlendNoClamp(c, mode) ==
  LET up == IF mode = "LAYERED_DIGRAM" /\ Less(c, One) THEN PlusStep(c) ELSE c
  IN IF mode # "LAYERED_DIGRAM" /\ ~IsZero(up)
       THEN ClampLow(MinusStep(up)) ELSE up
PosBlend(c, mode) ==
  LET up == IF mode = "LAYERED_DIGRAM" /\ Less(c, One)
              THEN ClampHigh(PlusStep(c)) ELSE c
  IN IF mode # "LAYERED_DIGRAM" /\ ~IsZero(up)
       THEN ClampLow(MinusStep(up)) ELSE up

\* c_pos after setMode
SnapPosIgnoringAnimate(c, mode, animate) ==
  IF mode = "LAYERED_DIGRAM" THEN One ELSE Zero
SnapPos(c, mode, animate) ==
  IF mode = "LAYERED_DIGRAM" /\ ~animate THEN One
  ELSE IF mode = "TRIGRAM" /\ ~animate THEN Zero
  ELSE c

\* TrigramWidget::setShape
setShape(shape) ==
  /\ animatedCalls < MaxAnimatedCalls
  /\ animatedCalls' = animatedCalls + 1
  /\ shape_' = shape
  /\ UNCHANGED <<heuristicVars, mode_, c_cyl, c_sph, c_pos, angle,
                 is_playing_, snapCalls, manipulatorVars, brightnessVars, glVars, drawn>>

\* TrigramWidget::setMode
setMode(mode, animate) ==
  /\ IF animate
       THEN /\ animatedCalls < MaxAnimatedCalls
            /\ animatedCalls' = animatedCalls + 1
            /\ UNCHANGED snapCalls
       ELSE /\ snapCalls < MaxSnapCalls
            /\ snapCalls' = snapCalls + 1
            /\ UNCHANGED animatedCalls
  /\ mode_' = mode
  /\ c_pos' = SnapPos(c_pos, mode, animate)
  /\ UNCHANGED <<heuristicVars, shape_, c_cyl, c_sph, angle, is_playing_,
                 manipulatorVars, brightnessVars, glVars, drawn>>

\* TrigramWidget::timerEvent.  angle only feeds the frame; it is counted in
\* steps of 0.5f up to MaxAngle.
timerEvent ==
  /\ angle' = IF is_playing_ /\ angle < MaxAngle THEN angle + 1 ELSE angle
  /\ c_cyl' = ShapeBlend(c_cyl, shape_ = "CYLINDER")
  /\ c_sph' = ShapeBlend(c_sph, shape_ = "SPHERE")
  /\ c_pos' = PosBlend(c_pos, mode_)
  /\ UNCHANGED <<heuristicVars, shape_, mode_, is_playing_, callVars,
                 manipulatorVars, brightnessVars, glVars, drawn>>

(***************************************************************************)
(* Camera manipulators: setManipulator, playPause, event                   *)
(***************************************************************************)
Manipulators == {"Spin", "Trackball", "Free"}
Poses == 0..(NumPoses - 1)
Range(seq) == {seq[i] : i \in DOMAIN seq}

\* Manipulator::handlesPause and Manipulator::initFromMatrix are implemented
\* outside this file.  Only the spin manipulator has a pause; initFromMatrix
\* is a fixed function of the manipulator and the matrix under which no
\* manipulator takes the matrix over unchanged.
HandlesPause(m) == m = "Spin"
InitFromMatrix(m, matrix) ==
  (matrix + (IF m = "Trackball" THEN 2 ELSE 1)) % NumPoses

\* pause_button_ == nullptr
NullButton == [null |-> TRUE, icon |-> "none", enabled |-> FALSE]

\* The manipulator part of the widget, as a record a handler works on:
\*   cur, filters, xform, playing, pause, checked  the fields of the widget
\*   emitted   arguments of the manipulatorChanged signals emitted so far
\*   inits     initFromMatrix calls made so far
WidgetState ==
  [cur |-> current_manipulator_, filters |-> eventFilters, xform |-> xform,
   playing |-> is_playing_, pause |-> pause_button_,
   checked |-> toolbarChecked, all |-> Range(manipulators_),
   emitted |-> <<>>, inits |-> <<>>]

\* TrigramWidget::playPause.  It is reached only from the pause button and
\* from setManipulator while paused, hence with pause_button_ set.
PlayPauseOn(w) ==
  [w EXCEPT !.pause = IF @.null THEN @
                      ELSE [@ EXCEPT !.icon = IF w.playing THEN "play"
                                                             ELSE "pause"],
            !.playing = ~w.playing]

\* if (manipulator == current_manipulator_) return;
NeverSame(w, m) == FALSE
SameManipulator(w, m) == m = w.cur

\* for (auto m : manipulators_) removeEventFilter(m);
\* installEventFilter(manipulator);
KeepFilters(w, m) == [w EXCEPT !.filters = @ \cup {m}]
SwapFilters(w, m) == [w EXCEPT !.filters = (@ \ w.all) \cup {m}]

\* if (current_manipulator_ != nullptr && manipulator != nullptr)
\*   manipulator->initFromMatrix(current_manipulator_->transform());
InitFromOwnMatrix(w, m) ==
  IF w.cur # "nullptr" /\ m # "nullptr"
    THEN [w EXCEPT !.xform[m] = InitFromMatrix(m, w.xform[m]),
                   !.inits = Append(@, [target |-> m, matrix |-> w.xform[m]])]
    ELSE w
InitFromCurrent(w, m) ==
  IF w.cur # "nullptr" /\ m # "nullptr"
    THEN [w EXCEPT !.xform[m] = InitFromMatrix(m, w.xform[w.cur]),
                   !.inits = Append(@, [target |-> m, matrix |-> w.xform[w.cur]])]
    ELSE w

\* if (!is_playing_) playPause();
StayPaused(w) == w
ResumePlaying(w) == IF ~w.playing THEN PlayPauseOn(w) ELSE w

\* if (pause_button_) pause_button_->setEnabled(current->handlesPause());
EnablePause(w) ==
  IF ~w.pause.null
    THEN [w EXCEPT !.pause.enabled = HandlesPause(w.cur)]
    ELSE w

\* the slot createActionButton connects to manipulatorChanged, for the
\* auto-exclusive buttons of the toolbar ("none" before the toolbar exists):
\*   if (manipulator == new_manipulator) button->setChecked(true);
CheckedStays(checked, m) == checked
CheckedAfterChange(checked, m) == IF checked = "none" THEN "none" ELSE m

\* TrigramWidget::setManipulator.  emit manipulatorChanged runs the slot of
\* createActionButton for the button of the new manipulator: setChecked(true);
\* a button that was not checked emits toggled, whose slot triggers the
\* button's action, that is setManipulator(manipulator) again.
RECURSIVE SetManipulatorOn(_, _)
SetManipulatorOn(w, m) ==
  IF SameManipulator(w, m) THEN w
  ELSE LET w1 == InitFromCurrent(SwapFilters(w, m), m)
           w2 == EnablePause(ResumePlaying([w1 EXCEPT !.cur = m]))
           w3 == [w2 EXCEPT !.emitted = Append(@, m)]
           button == CheckedAfterChange(w3.checked, m)
       IN IF button = w3.checked THEN w3
          ELSE SetManipulatorOn([w3 EXCEPT !.checked = button], m)

\* the widget fields become those of w, and lastCall tells what happened
Commit(w, op, arg, delivered) ==
  /\ current_manipulator_' = w.cur
  /\ eventFilters' = w.filters
  /\ xform' = w.xform
  /\ is_playing_' = w.playing
  /\ pause_button_' = w.pause
  /\ toolbarChecked' = w.checked
  /\ lastCall' = [op |-> op, arg |-> arg, emitted |-> w.emitted,
                  inits |-> w.inits, delivered |-> delivered,
                  wasPlaying |-> is_playing_]
  /\ UNCHANGED manipulators_

otherVars == <<heuristicVars, morphVars, callVars, heldTicks>>

\* setManipulator called from a toolbar action, a shortcut or the owner; its
\* callers pass one of the three manipulators
setManipulator(m) ==
  /\ Commit(SetManipulatorOn(WidgetState, m), "setManipulator", m, <<>>)
  /\ UNCHANGED <<otherVars, brightnessVars, glVars, drawn>>

\* the pause button is released
playPause ==
  /\ ~pause_button_.null
  /\ Commit(PlayPauseOn(WidgetState), "playPause", "nullptr", <<>>)
  /\ UNCHANGED <<otherVars, brightnessVars, glVars, drawn>>

\* TrigramWidget::event.  processEvent of the trackball manipulator may move
\* its transform to any pose.
EventKinds == {"MouseMoveLeft", "MouseMove", "KeyPressCtrl", "KeyPress", "Other"}

\* the manipulator event() switches to, or "nullptr":
\*   MouseMove && (buttons() & LeftButton) && current == spin  -> trackball
\*   KeyPress && current in {spin, trackball} && isCtrlButton  -> free
PromotionFromAny(kind, cur) ==
  IF kind = "MouseMoveLeft" THEN "Trackball"
  ELSE IF kind = "KeyPressCtrl" THEN "Free"
  ELSE "nullptr"
Promotion(kind, cur) ==
  IF kind = "MouseMoveLeft" /\ cur = "Spin" THEN "Trackball"
  ELSE IF kind = "KeyPressCtrl" /\ cur \in {"Spin", "Trackball"} THEN "Free"
  ELSE "nullptr"

\* the manipulator whose processEvent is called after a promotion:
\* trackball_manipulator_->processEvent(this, event) in both branches
ForwardToPromoted(promoted) == promoted
ForwardTarget(promoted) == "Trackball"

event(kind) ==
  LET w == WidgetState
      promoted == Promotion(kind, w.cur)
      target == ForwardTarget(promoted)
  IN /\ IF promoted = "nullptr"
          THEN Commit(w, "event", kind, <<>>)
          ELSE \E pose \in Poses :
                 Commit([SetManipulatorOn(w, promoted)
                           EXCEPT !.xform[target] = pose],
                        "event", kind, <<target>>)
     /\ UNCHANGED <<otherVars, brightnessVars, glVars, drawn>>

\* an input event reaches an installed event filter, which may move its
\* manipulator's transform to any pose
filterEvent(m) ==
  /\ m \in eventFilters
  /\ \E pose \in Poses :
       Commit([WidgetState EXCEPT !.xform[m] = pose], "eventFilter", m, <<m>>)
  /\ UNCHANGED <<otherVars, brightnessVars, glVars, drawn>>

\* glDrawArrays(GL_POINTS, 0, size - 2) with unsigned size = getDataSize():
\* size - 2 is computed modulo 2^32, here on two 16-bit halves <<high, low>>,
\* and passed as the GLsizei count, a signed 32-bit integer.
HalfBits == 16
HalfBase == 2^HalfBits
Halves(n) == <<n \div HalfBase, n % HalfBase>>
UnsignedMinus(size, k) ==
  LET h == Halves(size)
      borrow == IF h[2] < k THEN 1 ELSE 0
  IN <<(h[1] - borrow + HalfBase) % HalfBase, (h[2] - k + HalfBase) % HalfBase>>
ToGLsizei(u) ==
  IF u[1] >= HalfBase \div 2 THEN (u[1] - HalfBase) * HalfBase + u[2]
  ELSE u[1] * HalfBase + u[2]
Trailing == 2
DrawCount(size) == ToGLsizei(UnsignedMinus(size, Trailing))

\* TrigramWidget::paintGLImpl: the current manipulator is advanced by dt unless
\* it is paused, which may move its transform to any pose; then the points are
\* drawn
paintGLImpl ==
  /\ IF current_manipulator_ # "nullptr"
          /\ (is_playing_ \/ ~HandlesPause(current_manipulator_))
       THEN \E pose \in Poses :
              Commit([WidgetState EXCEPT !.xform[current_manipulator_] = pose],
                     "paintGL", "nullptr", <<>>)
       ELSE Commit(WidgetState, "paintGL", "nullptr", <<>>)
  /\ drawn' = <<DrawCount(getDataSize(data))>>
  /\ UNCHANGED <<otherVars, brightnessVars, glVars>>

\* TrigramWidget::prepareOptionsPanel with prepareManipulatorToolbar, called
\* once by the owner: the slider, the checkbox and the pause button are
\* created, then the toolbar, whose spin button is checked at once and so
\* triggers setManipulator(spin_manipulator_).
prepareOptionsPanel ==
  /\ pause_button_.null
  /\ brightness_' = suggestBrightness(data)
  /\ brightness_slider_' = suggestBrightness(data)
  /\ use_heuristic_checkbox_' =
       IF use_brightness_heuristic_ THEN "checked" ELSE "unchecked"
  /\ UNCHANGED <<use_brightness_heuristic_, glVars, drawn>>
  /\ Commit(SetManipulatorOn(
              [WidgetState EXCEPT !.pause = [null |-> FALSE, icon |-> "pause",
                                             enabled |-> TRUE],
                                  !.checked = "Spin"],
              "Spin"),
            "prepareOptionsPanel", "nullptr", <<>>)
  /\ UNCHANGED otherVars

(***************************************************************************)
(* Brightness and GPU objects: setBrightness, brightnessSliderMoved,       *)
(* setUseBrightnessHeuristic, autoSetBrightness, refresh, initTextures,    *)
(* initializeVisualisationGL                                               *)
(***************************************************************************)
\* Qt::Unchecked and Qt::Checked, the arguments of QCheckBox::stateChanged
Unchecked == 0
Checked == 2

\* The brightness part of the widget, as a record a handler works on:
\*   brightness, slider, flag, checkbox, c, texture, databuf, live
\*            the fields of the widget
\*   moves    arguments of the valueChanged signals of the slider so far
\*   toggles  arguments of the stateChanged signals of the checkbox so far
\*   gl       GPU objects deleted and created so far, in order
BrightnessState ==
  [brightness |-> brightness_, slider |-> brightness_slider_,
   flag |-> use_brightness_heuristic_, checkbox |-> use_heuristic_checkbox_,
   c |-> c_brightness, texture |-> texture, databuf |-> databuf,
   live |-> liveObjects, moves |-> <<>>, toggles |-> <<>>, gl |-> <<>>]

\* TrigramWidget::setBrightness
SetBrightnessOn(b, value, buf) ==
  [b EXCEPT !.brightness = value, !.c = Intensity(value, getDataSize(buf))]

\* if (value == brightness_) return;
SliderNeverSame(b, value) == FALSE
SliderValueSame(b, value) == value = b.brightness

\* auto new_brightness = suggestBrightness();
\* if (new_brightness == brightness_) return;
SuggestionNeverSame(new, brightness) == FALSE
SuggestionSame(new, brightness) == new = brightness

\* QSlider::setValue keeps the value between the minimum and the maximum set
\* in prepareOptionsPanel
SliderBound(value) ==
  IF value < k_minimum_brightness THEN k_minimum_brightness
  ELSE IF value > k_maximum_brightness THEN k_maximum_brightness
  ELSE value

RECURSIVE BrightnessSliderMovedOn(_, _, _)
RECURSIVE SetUseBrightnessHeuristicOn(_, _, _)

\* brightness_slider_->setValue(value): a slider whose value changes emits
\* valueChanged, which prepareOptionsPanel connects to brightnessSliderMoved
SliderSetValueOn(b, value, buf) ==
  LET bound == SliderBound(value)
  IN IF b.slider = bound THEN b
     ELSE BrightnessSliderMovedOn(
            [b EXCEPT !.slider = bound, !.moves = Append(@, bound)], bound, buf)

\* use_heuristic_checkbox_->setChecked(checked): a checkbox whose state changes
\* emits stateChanged, which prepareOptionsPanel connects to
\* setUseBrightnessHeuristic
SetCheckedOn(b, checked, buf) ==
  LET box == IF checked THEN "checked" ELSE "unchecked"
      state == IF checked THEN Checked ELSE Unchecked
  IN IF b.checkbox = box THEN b
     ELSE SetUseBrightnessHeuristicOn(
            [b EXCEPT !.checkbox = box, !.toggles = Append(@, state)], state, buf)

\* TrigramWidget::brightnessSliderMoved
BrightnessSliderMovedOn(b, value, buf) ==
  IF SliderValueSame(b, value) THEN b
  ELSE SetBrightnessOn(SetCheckedOn([b EXCEPT !.flag = FALSE], FALSE, buf),
                       value, buf)

\* TrigramWidget::autoSetBrightness
AutoSetBrightnessOn(b, buf) ==
  LET new_brightness == suggestBrightness(buf)
  IN IF SuggestionSame(new_brightness, b.brightness) THEN b
     ELSE LET b1 == [b EXCEPT !.brightness = new_brightness]
              b2 == IF b1.slider # NoValue
                      THEN SliderSetValueOn(b1, b1.brightness, buf)
                      ELSE b1
          IN SetBrightnessOn(b2, b2.brightness, buf)

\* TrigramWidget::setUseBrightnessHeuristic
SetUseBrightnessHeuristicOn(b, state, buf) ==
  LET b1 == [b EXCEPT !.flag = (state # 0)]
  IN IF b1.flag THEN AutoSetBrightnessOn(b1, buf) ELSE b1

\* delete texture; delete databuf;  in refresh
LeakObjects(b) == b
DeleteObjects(b) ==
  LET b1 == IF b.texture # NoValue
              THEN [b EXCEPT !.live = @ - 1, !.gl = Append(@, "delete texture")]
              ELSE b
  IN IF b1.databuf # NoValue
       THEN [b1 EXCEPT !.live = @ - 1, !.gl = Append(@, "delete databuf")]
       ELSE b1

\* TrigramWidget::initTextures
InitTexturesOn(b, buf) ==
  LET size == getDataSize(buf)
  IN [b EXCEPT !.databuf = size, !.texture = size, !.live = @ + 2,
               !.gl = @ \o <<"new databuf", "new texture">>]

\* the body of TrigramWidget::refresh
RefreshOn(b, buf) ==
  LET b1 == IF b.flag THEN AutoSetBrightnessOn(b, buf) ELSE b
      b2 == SetBrightnessOn(b1, b1.brightness, buf)
  IN InitTexturesOn(DeleteObjects(b2), buf)

\* the body of TrigramWidget::initializeVisualisationGL
InitializeVisualisationGLOn(b, buf) ==
  LET b1 == InitTexturesOn(AutoSetBrightnessOn(b, buf), buf)
  IN SetBrightnessOn(b1, b1.brightness, buf)

\* the widget fields become those of b, and lastSlot tells what happened
CommitBrightness(b, op, arg) ==
  /\ brightness_' = b.brightness
  /\ brightness_slider_' = b.slider
  /\ use_brightness_heuristic_' = b.flag
  /\ use_heuristic_checkbox_' = b.checkbox
  /\ c_brightness' = b.c
  /\ texture' = b.texture
  /\ databuf' = b.databuf
  /\ liveObjects' = b.live
  /\ lastSlot' = [op |-> op, arg |-> arg, moves |-> b.moves,
                  toggles |-> b.toggles, gl |-> b.gl]

\* TrigramWidget::initializeVisualisationGL, called once by the framework
\* before the first frame and the first refresh, with OpenGL functions that
\* initialise
initializeVisualisationGL ==
  /\ texture = NoValue
  /\ CommitBrightness(InitializeVisualisationGLOn(BrightnessState, data),
                      "initializeVisualisationGL", NoValue)
  /\ UNCHANGED <<otherVars, is_playing_, manipulatorVars, drawn>>

\* TrigramWidget::refresh, called by the owner once it has replaced the data
\* behind getData() and getDataSize()
refresh(buf) ==
  /\ texture # NoValue
  /\ data' = buf
  /\ CommitBrightness(RefreshOn(BrightnessState, buf), "refresh",
                      getDataSize(buf))
  /\ UNCHANGED <<suggestion, morphVars, callVars, heldTicks, is_playing_,
                 manipulatorVars, drawn>>

\* the slider is moved to another value and its valueChanged signal calls
\* the slot brightnessSliderMoved
brightnessSliderMoved(value) ==
  /\ brightness_slider_ # NoValue
  /\ value # brightness_slider_
  /\ CommitBrightness(
       BrightnessSliderMovedOn([BrightnessState EXCEPT !.slider = value],
                               value, data),
       "brightnessSliderMoved", value)
  /\ UNCHANGED <<otherVars, is_playing_, manipulatorVars, drawn>>

\* the checkbox is toggled and its stateChanged signal calls the slot
\* setUseBrightnessHeuristic
setUseBrightnessHeuristic(state) ==
  /\ use_heuristic_checkbox_ # "nullptr"
  /\ state = IF use_heuristic_checkbox_ = "checked" THEN Unchecked ELSE Checked
  /\ CommitBrightness(
       SetUseBrightnessHeuristicOn(
         [BrightnessState EXCEPT
            !.checkbox = IF state = Checked THEN "checked" ELSE "unchecked"],
         state, data),
       "setUseBrightnessHeuristic", state)
  /\ UNCHANGED <<otherVars, is_playing_, manipulatorVars, drawn>>

(***************************************************************************)
(* The widget after TrigramWidget::TrigramWidget                           *)
(***************************************************************************)
\* the fields before the constructor body calls setManipulator
BeforeFirstManipulator ==
  [cur |-> "nullptr", filters |-> {}, xform |-> [m \in Manipulators |-> 0],
   playing |-> TRUE, pause |-> NullButton, checked |-> "none",
   all |-> Manipulators, emitted |-> <<>>, inits |-> <<>>]

Constructed ==
  /\ angle = 0
  /\ c_sph = Zero /\ c_cyl = Zero /\ c_pos = Zero
  /\ shape_ = "CUBE"
  /\ mode_ = "TRIGRAM"
  /\ brightness_ = MidBrightness
  /\ brightness_slider_ = NoValue
  /\ use_brightness_heuristic_ = TRUE
  /\ use_heuristic_checkbox_ = "nullptr"
  /\ c_brightness \in Indeterminate
  /\ texture = NoValue /\ databuf = NoValue
  /\ liveObjects = 0
  /\ lastSlot = [op |-> "constructor", arg |-> NoValue, moves |-> <<>>,
                 toggles |-> <<>>, gl |-> <<>>]
  /\ drawn = <<>>
  /\ manipulators_ = <<"Spin", "Trackball", "Free">>
  /\ LET w == SetManipulatorOn(BeforeFirstManipulator, "Spin")
     IN /\ current_manipulator_ = w.cur
        /\ eventFilters = w.filters
        /\ xform = w.xform
        /\ is_playing_ = w.playing
        /\ pause_button_ = w.pause
        /\ toolbarChecked = w.checked
        /\ lastCall = [op |-> "constructor", arg |-> "Spin",
                       emitted |-> w.emitted, inits |-> w.inits,
                       delivered |-> <<>>, wasPlaying |-> TRUE]
  /\ animatedCalls = 0 /\ snapCalls = 0
  /\ heldTicks = 0

(***************************************************************************)
(* Buffers fed to the heuristic: the first `lead` bytes equal to `byte`,   *)
(* the rest cycling through the byte values 0 .. period-1.                 *)
(***************************************************************************)
MakeBuffer(size, lead, byte, period) ==
  [i \in 1..size |-> IF i <= lead THEN byte ELSE (i - lead - 1) % period]

BufferSizes == {0, 1, 50, MinHeuristicSize - 1, MinHeuristicSize,
                MinHeuristicSize + 1, MidSize}
LeadPercents == {0, 30, 65, 66, 67, 100}
Periods == {1, 2, 3, 5, 70, 100, NumBuckets}
LeadBytes == {65, 255}

Buffers ==
  { MakeBuffer(n, (n * p) \div 100, b, k) :
      n \in BufferSizes, p \in LeadPercents, b \in LeadBytes, k \in Periods }
  \cup { MakeBuffer(BigSize, BigSize, 65, 1),
         MakeBuffer(BigSize, 0, 65, NumBuckets) }

InitHeuristic ==
  /\ data \in Buffers
  /\ suggestion = NoValue
  /\ Constructed

\* a caller evaluates suggestBrightness() on the current data
CallSuggest ==
  /\ suggestion = NoValue
  /\ suggestion' = suggestBrightness(data)
  /\ UNCHANGED <<data, morphVars, is_playing_, callVars, heldTicks,
                 manipulatorVars, brightnessVars, glVars, drawn>>

NextHeuristic == CallSuggest

SpecHeuristic == InitHeuristic /\ [][NextHeuristic]_vars

(***************************************************************************)
(* The morph state machine under ticks, shape changes and mode changes.    *)
(***************************************************************************)
\* the buffer shown while the morph state and the manipulators are exercised
SmallBuffer == MakeBuffer(3, 3, 65, 1)

InitWidget ==
  /\ data = SmallBuffer
  /\ suggestion = NoValue
  /\ Constructed

Tick == timerEvent /\ UNCHANGED heldTicks
SetShape == \E shape \in Shapes : setShape(shape) /\ UNCHANGED heldTicks
SetMode ==
  \E mode \in Modes, animate \in BOOLEAN :
    setMode(mode, animate) /\ UNCHANGED heldTicks

NextMorph == Tick \/ SetShape \/ SetMode

SpecMorph == InitWidget /\ [][NextMorph]_vars

(***************************************************************************)
(* The mode blend alone, with the ticks under a constant mode counted.     *)
(***************************************************************************)
HeldTick ==
  /\ timerEvent
  /\ heldTicks' = IF heldTicks < MaxHeldTicks THEN heldTicks + 1 ELSE heldTicks
HeldSetMode ==
  \E mode \in Modes, animate \in BOOLEAN :
    setMode(mode, animate) /\ heldTicks' = 0

NextMode == HeldTick \/ HeldSetMode

SpecMode == InitWidget /\ [][NextMode]_vars

(***************************************************************************)
(* The manipulators under switches, input events, frames and pauses.       *)
(***************************************************************************)
SetManipulator == \E m \in Range(manipulators_) : setManipulator(m)
Event == \E kind \in EventKinds : event(kind)
FilterEvent == \E m \in Range(manipulators_) : filterEvent(m)

NextManipulator ==
  \/ SetManipulator
  \/ playPause
  \/ Event
  \/ FilterEvent
  \/ paintGLImpl
  \/ prepareOptionsPanel

SpecManipulator == InitWidget /\ [][NextManipulator]_vars

(***************************************************************************)
(* Brightness and GPU objects under GL initialisation, the options panel,  *)
(* slider moves, checkbox toggles, refreshes with new data, and frames.    *)
(***************************************************************************)
\* buffers of sizes 0, 1 and 3, for which suggestBrightness is the midpoint,
\* a buffer of one byte value (suggestion k_brightness_heuristic_max) and
\* one of all different byte values (k_brightness_heuristic_min)
ShownBuffers ==
  { MakeBuffer(0, 0, 0, 1), MakeBuffer(1, 1, 65, 1), SmallBuffer,
    MakeBuffer(MidSize, MidSize, 65, 1), MakeBuffer(MidSize, 0, 0, NumBuckets) }

\* values the slider is moved to
SliderValues ==
  { k_minimum_brightness, k_brightness_heuristic_min, MidBrightness,
    k_brightness_heuristic_max, k_maximum_brightness }

InitBrightness ==
  /\ data \in ShownBuffers
  /\ suggestion = NoValue
  /\ Constructed

Refresh == \E buf \in ShownBuffers : refresh(buf)
SliderMoved == \E value \in SliderValues : brightnessSliderMoved(value)
CheckboxToggled ==
  \E state \in {Unchecked, Checked} : setUseBrightnessHeuristic(state)
\* a frame is drawn once GL is initialised
Paint == texture # NoValue /\ paintGLImpl

NextBrightness ==
  \/ initializeVisualisationGL
  \/ prepareOptionsPanel
  \/ Refresh
  \/ SliderMoved
  \/ CheckboxToggled
  \/ Paint

SpecBrightness == InitBrightness /\ [][NextBrightness]_vars

(***************************************************************************)
(* Properties of suggestBrightness                                         *)
(***************************************************************************)
Suggested == suggestion # NoValue

\* number of bytes of buf equal to b
Occurrences(buf, b) == Cardinality({i \in 1..Len(buf) : buf[i] = b})

\* some byte value occupies at least 66% of a non-empty buffer
HasDominantByte(buf) ==
  /\ Len(buf) > 0
  /\ \E b \in 0..(NumBuckets - 1) : Occurrences(buf, b) * 100 >= 66 * Len(buf)

\* the buffer cycles evenly through all 256 byte values
CyclesAllBytes(buf) == \A i \in 1..Len(buf) : buf[i] = (i - 1) % 256

\* the bucket counter of the walk after the division by 2.5
ScaledOffset(buf) ==
  ScaleOffset(Walk(SortCounts(Histogram(buf)), getDataSize(buf), 0, 0))

\* C1: for every buffer, of any size and contents, suggestBrightness returns a
\* value b with 38 <= b <= 66.
C1_SuggestInRange == Suggested => (38 <= suggestion /\ suggestion <= 66)

\* a buffer large enough for the histogram walk has been given a suggestion
\* strictly inside the range
C1_Witness ==
  /\ Suggested
  /\ Len(data) >= 100
  /\ 38 < suggestion /\ suggestion < 66

\* C2: for every buffer whose size is less than 100, suggestBrightness returns
\* 64, whatever the buffer holds.
C2_SmallBufferMidpoint == (Suggested /\ Len(data) < 100) => suggestion = 64

\* a 99-byte buffer that is not constant has been given its suggestion
C2_Witness ==
  /\ Suggested
  /\ Len(data) = 99
  /\ \E i \in 1..Len(data) : data[i] # data[1]

\* C3 as stated: a buffer in which a single byte value occupies at least 66% of
\* the bytes is given the suggestion 66.
C3_DominantByteGives66 == (Suggested /\ HasDominantByte(data)) => suggestion = 66

\* C3 amended: a buffer of at least 100 bytes in which a single byte value
\* occupies at least 66% of the bytes is given the suggestion 66, the bucket
\* counter being 0 after the division by 2.5.
C3_LargeDominantByteGives66 ==
  (Suggested /\ Len(data) >= 100 /\ HasDominantByte(data))
     => (suggestion = 66 /\ ScaledOffset(data) = 0)

\* a buffer of at least 100 bytes, exactly 66% of them one byte value and the
\* rest spread over other values, has been given its suggestion
C3_Witness ==
  /\ Suggested
  /\ Len(data) >= 100
  /\ \E b \in 0..(NumBuckets - 1) : Occurrences(data, b) * 100 = 66 * Len(data)

\* C4: a buffer of 5000 bytes cycling evenly through all 256 byte values is
\* given the floor suggestion 38, the bucket counter being at least 28 after
\* the division by 2.5.
C4_UniformGivesFloor ==
  (Suggested /\ Len(data) = BigSize /\ CyclesAllBytes(data))
     => (suggestion = 38 /\ ScaledOffset(data) >= 28)

\* the 5000-byte cycling buffer has been given its suggestion
C4_Witness ==
  /\ Suggested
  /\ Len(data) = BigSize
  /\ CyclesAllBytes(data)
  /\ Occurrences(data, 255) > 0

(***************************************************************************)
(* Properties of the morph state                                           *)
(***************************************************************************)
\* the value c_pos is driven to under a mode
Target(mode) == IF mode = "LAYERED_DIGRAM" THEN One ELSE Zero

\* C5: in every reachable state, after any interleaving of ticks, setShape
\* calls and setMode calls (animate true or false), each of c_cyl, c_sph and
\* c_pos lies in [0,1].
C5_BlendsInUnitInterval ==
  InUnitInterval(c_cyl) /\ InUnitInterval(c_sph) /\ InUnitInterval(c_pos)

\* a shape blend is on its way, strictly inside (0,1), after a setMode call
\* snapped c_pos to 1
C5_Witness ==
  /\ snapCalls > 0 /\ animatedCalls > 0
  /\ Less(Zero, c_cyl) /\ Less(c_cyl, One)
  /\ c_pos = One

\* once c_pos is at the target of the mode, a step that keeps the mode keeps c_pos
PosIdles == (c_pos = Target(mode_) /\ mode_' = mode_) => c_pos' = c_pos

\* C6 as stated: under a constant mode c_pos equals its target (1 for
\* LAYERED_DIGRAM, 0 otherwise) within 100 ticks, and idles once there.
C6_PosAtTargetWithin100 ==
  /\ [](heldTicks >= 100 => c_pos = Target(mode_))
  /\ [][PosIdles]_vars

\* C6 amended: under a constant mode c_pos equals its target (1 for
\* LAYERED_DIGRAM, 0 otherwise) within 101 ticks, and idles once there.
C6_PosAtTargetWithin101 ==
  /\ [](heldTicks >= 101 => c_pos = Target(mode_))
  /\ [][PosIdles]_vars

\* c_pos has eased from 0 to exactly 1 under 101 ticks of LAYERED_DIGRAM
C6_Witness ==
  /\ heldTicks = 101
  /\ mode_ = "LAYERED_DIGRAM"
  /\ snapCalls = 0 /\ animatedCalls = 1
  /\ c_pos = One

(***************************************************************************)
(* Properties of the manipulator switching protocol                        *)
(***************************************************************************)
\* the step is a direct setManipulator call with the manipulator that is
\* current before the call, or with another one
CallWithCurrent ==
  /\ lastCall'.op = "setManipulator"
  /\ lastCall'.arg = current_manipulator_
CallWithOther ==
  /\ lastCall'.op = "setManipulator"
  /\ lastCall'.arg # current_manipulator_

\* C7: after construction and after any sequence of setManipulator calls and
\* input events, the active manipulator is not null and is one of Spin,
\* Trackball and Free, the collection of manipulators is the one created by
\* the constructor, and the installed event filters are exactly the active
\* manipulator.
C7_OneActiveManipulator ==
  /\ current_manipulator_ # "nullptr"
  /\ current_manipulator_ \in Range(manipulators_)
  /\ manipulators_ = <<"Spin", "Trackball", "Free">>
  /\ eventFilters = {current_manipulator_}

\* a key press has promoted the trackball manipulator to the free one
C7_Witness ==
  /\ lastCall.op = "event"
  /\ lastCall.arg = "KeyPressCtrl"
  /\ lastCall.emitted = <<"Free">>
  /\ lastCall.inits[1].target = "Free"
  /\ current_manipulator_ = "Free"
  /\ toolbarChecked = "Free"

\* C8: setManipulator called with the manipulator that is already active emits
\* no manipulatorChanged signal, calls no initFromMatrix, and leaves the active
\* manipulator, the event filters, the transforms, the pause button, the
\* toolbar and the playing flag as they were.
C8_SameManipulatorNoOp ==
  [][CallWithCurrent =>
       /\ lastCall'.emitted = <<>>
       /\ lastCall'.inits = <<>>
       /\ UNCHANGED <<current_manipulator_, eventFilters, xform, is_playing_,
                      pause_button_, toolbarChecked, manipulators_>>]_vars

\* setManipulator was called with the active manipulator while paused and the
\* animation is still paused
C8_Witness ==
  /\ lastCall.op = "setManipulator"
  /\ lastCall.arg = current_manipulator_
  /\ lastCall.emitted = <<>>
  /\ ~lastCall.wasPlaying
  /\ ~is_playing_

\* C9: after setManipulator(next) with next other than the active manipulator
\* the animation is playing, whether it was paused or playing before.
C9_SwitchResumesPlaying == [][CallWithOther => is_playing_']_vars

\* setManipulator switched the manipulator while paused and the animation
\* plays again
C9_Witness ==
  /\ lastCall.op = "setManipulator"
  /\ lastCall.emitted = <<current_manipulator_>>
  /\ ~lastCall.wasPlaying
  /\ is_playing_
  /\ pause_button_.icon = "pause"

\* C10: when setManipulator(next) switches away from the active manipulator,
\* next.initFromMatrix is called exactly once, with the transform the active
\* manipulator had when setManipulator was called, and the transform of next
\* after the call is the result of that initFromMatrix call; the other
\* transforms are untouched.
C10_InitFromPreviousTransform ==
  [][CallWithOther =>
       /\ lastCall'.inits = <<[target |-> lastCall'.arg,
                               matrix |-> xform[current_manipulator_]]>>
       /\ xform' = [xform EXCEPT ![lastCall'.arg] =
                      InitFromMatrix(lastCall'.arg, xform[current_manipulator_])]
       /\ current_manipulator_' = lastCall'.arg]_vars

\* setManipulator switched away from a manipulator that had left its first
\* pose, and the new manipulator continues from the pose it was handed
C10_Witness ==
  /\ lastCall.op = "setManipulator"
  /\ Len(lastCall.inits) = 1
  /\ lastCall.inits[1].target = current_manipulator_
  /\ xform[current_manipulator_] =
       InitFromMatrix(current_manipulator_, lastCall.inits[1].matrix)
  /\ xform[current_manipulator_] #
       InitFromMatrix(current_manipulator_, xform[current_manipulator_])
  /\ lastCall.inits[1].matrix # 0

(***************************************************************************)
(* Properties of the automatic promotions in event()                       *)
(***************************************************************************)
\* the step is event() handling an event of the kind
Dispatch(kind) == lastCall'.op = "event" /\ lastCall'.arg = kind

\* the step switches no manipulator and forwards the event to none
NoPromotion ==
  /\ current_manipulator_' = current_manipulator_
  /\ lastCall'.emitted = <<>>
  /\ lastCall'.inits = <<>>
  /\ lastCall'.delivered = <<>>

\* C11: a pointer-move event with the primary button held, dispatched while the
\* spin manipulator is active, leaves the trackball manipulator active and is
\* delivered to the trackball manipulator; dispatched while the trackball or
\* the free manipulator is active it switches nothing.
C11_DragPromotesSpinToTrackball ==
  [][Dispatch("MouseMoveLeft") =>
       IF current_manipulator_ = "Spin"
         THEN /\ current_manipulator_' = "Trackball"
              /\ eventFilters' = {"Trackball"}
              /\ lastCall'.emitted = <<"Trackball">>
              /\ lastCall'.delivered = <<"Trackball">>
         ELSE NoPromotion]_vars

\* a drag has promoted the spin manipulator and reached the trackball one
C11_Witness ==
  /\ lastCall.op = "event"
  /\ lastCall.arg = "MouseMoveLeft"
  /\ lastCall.delivered = <<"Trackball">>
  /\ lastCall.inits[1].target = "Trackball"
  /\ current_manipulator_ = "Trackball"

\* C16: a key press with a modifier key of the free manipulator, dispatched
\* while the spin or the trackball manipulator is active, leaves the free
\* manipulator active and is forwarded to the trackball manipulator, not to the
\* free one; dispatched while the free manipulator is active it switches
\* nothing and is forwarded to none.
C16_ModifierKeyPromotesToFree ==
  [][Dispatch("KeyPressCtrl") =>
       IF current_manipulator_ \in {"Spin", "Trackball"}
         THEN /\ current_manipulator_' = "Free"
              /\ eventFilters' = {"Free"}
              /\ lastCall'.emitted = <<"Free">>
              /\ lastCall'.delivered = <<"Trackball">>
         ELSE NoPromotion]_vars

\* a modifier key has promoted the spin manipulator to the free one and the
\* key press went to the trackball manipulator, which moved
C16_Witness ==
  /\ lastCall.op = "event"
  /\ lastCall.arg = "KeyPressCtrl"
  /\ lastCall.delivered = <<"Trackball">>
  /\ lastCall.inits[1].target = "Free"
  /\ current_manipulator_ = "Free"
  /\ xform["Trackball"] # xform["Spin"]

(***************************************************************************)
(* The manipulatorChanged notification and the toolbar                     *)
(***************************************************************************)
\* C20: every step that changes the active manipulator, from the toolbar or a
\* shortcut (setManipulator), from an automatic promotion (event) or from the
\* toolbar's construction, emits exactly one manipulatorChanged notification,
\* which carries the new active manipulator, and initialises one manipulator
\* once, although the notification checks a toolbar button whose toggled slot
\* calls setManipulator again; a step that leaves the active manipulator
\* emits none; and after every step the checked toolbar button, if the toolbar
\* exists, is the button of the active manipulator.
C20_OneNotificationPerSwitch ==
  [][/\ IF current_manipulator_' # current_manipulator_
          THEN /\ lastCall'.emitted = <<current_manipulator_'>>
               /\ Len(lastCall'.inits) = 1
               /\ lastCall'.inits[1].target = current_manipulator_'
          ELSE /\ lastCall'.emitted = <<>>
               /\ lastCall'.inits = <<>>
     /\ toolbarChecked' \in {"none", current_manipulator_'}]_vars

\* with the toolbar built, a drag has promoted the spin manipulator: one
\* notification, and the trackball button is the checked one
C20_Witness ==
  /\ ~pause_button_.null
  /\ lastCall.op = "event"
  /\ lastCall.arg = "MouseMoveLeft"
  /\ lastCall.emitted = <<"Trackball">>
  /\ toolbarChecked = "Trackball"
  /\ current_manipulator_ = "Trackball"

(***************************************************************************)
(* Calls that snap and calls that animate                                  *)
(***************************************************************************)
\* the value a shape blend is driven to under a shape
ShapeTarget(shape, of) == IF shape = of THEN One ELSE Zero

\* the step is setMode(_, false)
SnapCall == snapCalls' # snapCalls
\* the step is setShape(_) or setMode(_, true)
AnimatedCall == animatedCalls' # animatedCalls
\* the step is a setShape call that selects another shape
ShapeCall == shape_' # shape_

\* C18 as stated: a setMode call with animate = false leaves c_pos at the
\* target of the mode, a setMode call with animate = true leaves the blend
\* scalars unchanged, and a setShape call that is to switch the shape at once
\* leaves c_cyl and c_sph at the targets of the selected shape.  setShape has
\* no animate parameter, so setShape(shape) is the only call there is for it.
C18_SetModeAndSetShapeSnap ==
  [][/\ SnapCall => c_pos' = Target(mode_')
     /\ (AnimatedCall /\ ~ShapeCall) => UNCHANGED <<c_cyl, c_sph, c_pos>>
     /\ ShapeCall => /\ c_cyl' = ShapeTarget(shape_', "CYLINDER")
                     /\ c_sph' = ShapeTarget(shape_', "SPHERE")]_vars

\* C18: a setMode call with animate = false leaves c_pos at the target of the
\* mode (1 for LAYERED_DIGRAM, 0 for TRIGRAM) and c_cyl and c_sph unchanged; a
\* setMode call with animate = true and every setShape call leave the three
\* blend scalars unchanged, so that only timer events move them.
C18_SetModeSnapsSetShapeAnimates ==
  [][/\ SnapCall => /\ c_pos' = Target(mode_')
                    /\ UNCHANGED <<c_cyl, c_sph>>
     /\ AnimatedCall => UNCHANGED <<c_cyl, c_sph, c_pos>>]_vars

\* setMode(LAYERED_DIGRAM, false) has snapped c_pos to 1 with no timer event,
\* and setShape(CYLINDER) has left c_cyl at 0
C18_Witness ==
  /\ snapCalls > 0 /\ animatedCalls > 0
  /\ mode_ = "LAYERED_DIGRAM" /\ c_pos = One
  /\ shape_ = "CYLINDER" /\ IsZero(c_cyl)
  /\ angle = 0

(***************************************************************************)
(* Properties of the brightness state and the GPU objects                  *)
(***************************************************************************)
\* the step is the brightness or GL handler op
SlotStep(op) == lastSlot'.op = op /\ UNCHANGED <<manipulatorVars, drawn>>

\* the float quotient v^3 / size
CubeOver(v, size) == FloatDiv(v * v * v, size)

\* the step is a handler whose autoSetBrightness moved the slider to v, so
\* that brightnessSliderMoved(v) ran while brightness_ was v already
SliderCalledBack(v) ==
  /\ \/ SlotStep("initializeVisualisationGL")
     \/ SlotStep("refresh")
     \/ SlotStep("setUseBrightnessHeuristic")
  /\ lastSlot' # lastSlot
  /\ lastSlot'.moves = <<v>>

\* C12: a brightnessSliderMoved call with the value brightness_ has changes
\* nothing: brightness_ keeps that value, the heuristic flag is not cleared and
\* the checkbox emits no state change (so no such call clears the flag or
\* touches c_brightness, which only the caller's setBrightness sets); a call
\* with any other value v leaves the heuristic flag false, the checkbox
\* unchecked, brightness_ = v and c_brightness = v^3 / getDataSize().
C12_SliderMoveAppliesValue ==
  [][\A v \in SliderValues :
       /\ (SlotStep("brightnessSliderMoved") /\ lastSlot'.arg = v) =>
            IF v = brightness_
              THEN UNCHANGED <<brightness_, c_brightness,
                              use_brightness_heuristic_,
                              use_heuristic_checkbox_>>
              ELSE /\ ~use_brightness_heuristic_'
                   /\ use_heuristic_checkbox_' = "unchecked"
                   /\ lastSlot'.toggles \in {<<>>, <<Unchecked>>}
                   /\ brightness_' = v
                   /\ c_brightness' = CubeOver(v, getDataSize(data))
       /\ SliderCalledBack(v) =>
            /\ brightness_' = v
            /\ c_brightness' = CubeOver(v, getDataSize(data'))
            /\ lastSlot'.toggles = <<>>
            /\ use_brightness_heuristic_' =
                 IF lastSlot'.op = "setUseBrightnessHeuristic"
                   THEN TRUE ELSE use_brightness_heuristic_
            /\ use_heuristic_checkbox_' =
                 IF lastSlot'.op = "setUseBrightnessHeuristic"
                   THEN "checked" ELSE use_heuristic_checkbox_]_vars

\* the slider was moved off the suggested value while the heuristic was on:
\* the checkbox got unchecked and the value applied to a buffer of MidSize bytes
C12_Witness ==
  /\ lastSlot.op = "brightnessSliderMoved"
  /\ lastSlot.toggles = <<Unchecked>>
  /\ ~use_brightness_heuristic_
  /\ use_heuristic_checkbox_ = "unchecked"
  /\ brightness_ = k_maximum_brightness
  /\ getDataSize(data) = MidSize
  /\ c_brightness = CubeOver(k_maximum_brightness, MidSize)

\* the step runs autoSetBrightness on the data buf
AutoApplied(buf) ==
  \/ SlotStep("initializeVisualisationGL") /\ buf = data
  \/ SlotStep("refresh") /\ use_brightness_heuristic_ /\ buf = data'
  \/ /\ SlotStep("setUseBrightnessHeuristic")
     /\ lastSlot'.arg = Checked
     /\ buf = data

\* C13: an autoSetBrightness call whose suggested value is the stored
\* brightness_ changes nothing: the slider keeps its value and notifies
\* nobody, the checkbox and brightness_ are unchanged, the heuristic flag is
\* as its caller left it, and c_brightness is touched only by the
\* setBrightness call that refresh and initializeVisualisationGL make after it.
C13_AutoApplySameValueIsNoOp ==
  [][\A buf \in ShownBuffers :
       (AutoApplied(buf) /\ suggestBrightness(buf) = brightness_) =>
         /\ brightness_' = brightness_
         /\ brightness_slider_' = brightness_slider_
         /\ lastSlot'.moves = <<>>
         /\ lastSlot'.toggles = <<>>
         /\ use_brightness_heuristic_' =
              IF lastSlot'.op = "setUseBrightnessHeuristic"
                THEN TRUE ELSE use_brightness_heuristic_
         /\ lastSlot'.op = "setUseBrightnessHeuristic" =>
              c_brightness' = c_brightness]_vars

\* the heuristic was switched on again while brightness_ was already the
\* suggestion for a buffer of one byte value: no slider notification
C13_Witness ==
  /\ lastSlot.op = "setUseBrightnessHeuristic"
  /\ lastSlot.arg = Checked
  /\ lastSlot.moves = <<>>
  /\ use_brightness_heuristic_
  /\ brightness_ = k_brightness_heuristic_max
  /\ brightness_slider_ = k_brightness_heuristic_max
  /\ suggestBrightness(data) = k_brightness_heuristic_max

\* C14: in every reachable state c_brightness is brightness_^3 / getDataSize()
\* for the brightness_ and the data of that state.
C14_IntensityFollowsBrightness ==
  c_brightness = CubeOver(brightness_, getDataSize(data))

\* C15: a setUseBrightnessHeuristic call that enables the heuristic leaves
\* brightness_ = suggestBrightness() for the data, the slider (which called
\* back into brightnessSliderMoved if it moved) at that value,
\* c_brightness = brightness_^3 / getDataSize(), the heuristic flag true and
\* the checkbox checked, and the checkbox has emitted no state change.
C15_EnablingAppliesSuggestion ==
  [][(SlotStep("setUseBrightnessHeuristic") /\ lastSlot'.arg = Checked) =>
       /\ brightness_' = suggestBrightness(data)
       /\ brightness_slider_' = brightness_'
       /\ c_brightness' = CubeOver(brightness_', getDataSize(data))
       /\ use_brightness_heuristic_'
       /\ use_heuristic_checkbox_' = "checked"
       /\ lastSlot'.toggles = <<>>]_vars

\* C15 without the intensity: a setUseBrightnessHeuristic call that enables
\* the heuristic leaves brightness_ = suggestBrightness(), the slider at that
\* value, the heuristic flag true and the checkbox checked; when the slider
\* moved and called back into brightnessSliderMoved, c_brightness is
\* brightness_^3 / getDataSize() as well.
EnablingKeepsHeuristic ==
  [][(SlotStep("setUseBrightnessHeuristic") /\ lastSlot'.arg = Checked) =>
       /\ brightness_' = suggestBrightness(data)
       /\ brightness_slider_' = brightness_'
       /\ use_brightness_heuristic_'
       /\ use_heuristic_checkbox_' = "checked"
       /\ lastSlot'.toggles = <<>>
       /\ lastSlot'.moves # <<>> =>
            /\ lastSlot'.moves = <<brightness_'>>
            /\ c_brightness' = CubeOver(brightness_', getDataSize(data))]_vars

\* C17: after refresh() brightness_ is suggestBrightness() of the new data if
\* the heuristic is enabled and unchanged otherwise, c_brightness is
\* brightness_^3 / the new size, the old texture and buffer were deleted
\* before the new buffer and texture were created, and the new pair, of the
\* new size, is the only one alive.
C17_RefreshRebuilds ==
  [][SlotStep("refresh") =>
       /\ brightness_' = IF use_brightness_heuristic_
                           THEN suggestBrightness(data') ELSE brightness_
       /\ use_brightness_heuristic_' = use_brightness_heuristic_
       /\ c_brightness' = CubeOver(brightness_', getDataSize(data'))
       /\ lastSlot'.gl = <<"delete texture", "delete databuf",
                           "new databuf", "new texture">>
       /\ liveObjects' = 2
       /\ texture' = getDataSize(data') /\ databuf' = getDataSize(data')]_vars

\* a refresh replaced a buffer of one byte by one of MidSize bytes with the
\* heuristic on: the brightness went to the suggestion, the slider followed
C17_Witness ==
  /\ lastSlot.op = "refresh"
  /\ lastSlot.arg = MidSize
  /\ lastSlot.moves = <<k_brightness_heuristic_min>>
  /\ use_brightness_heuristic_
  /\ brightness_ = k_brightness_heuristic_min
  /\ texture = MidSize /\ liveObjects = 2
  /\ c_brightness = CubeOver(k_brightness_heuristic_min, MidSize)

\* the step is paintGLImpl
PaintStep ==
  lastCall'.op = "paintGL" /\ UNCHANGED <<data, brightnessVars, glVars>>

\* C19: every paintGLImpl call passes getDataSize() - 2 to glDrawArrays as the
\* count of points, and the count is neither negative nor above getDataSize().
C19_DrawCountWithinData ==
  [][PaintStep =>
       /\ Len(drawn') = 1
       /\ drawn'[1] = getDataSize(data) - Trailing
       /\ drawn'[1] >= 0
       /\ drawn'[1] <= getDataSize(data)]_vars

====
